---- MODULE Spec2Model ----
(***************************************************************************)
(* Scan-and-scroll retrieval of the elasticsearch client:                  *)
(*   client.SearchByScanAndScroll  (Open)     src/unnamed/part_001:84-103  *)
(*   Scroller.NextChunk            (Advance)  src/unnamed/part_001:105-113 *)
(*   sendHTTPRequest               (transport) src/client.go:747-775       *)
(* together with the search engine the requests are sent to, and with      *)
(* encoding/json's Unmarshal as it decodes into an existing struct.        *)
(*                                                                         *)
(* The model follows one scroll: the caller opens it once, then advances  *)
(* it, and may set the client's timeout at any time.                       *)
(*                                                                         *)
(* Durations are counted in milliseconds.  A string built with Sprintf is  *)
(* the tuple of its parts, the empty string being <<>>.  A document (hit)  *)
(* is modelled by its identifier, a number 1..ndocs.                       *)
(***************************************************************************)
EXTENDS Integers, Sequences, FiniteSets, TLC

\* ------------------------------------------------------------------ bounds
MaxDocs == 3      \* documents in the collection: 0..MaxDocs
MaxSize == 2      \* "size" of the query body: 1..MaxSize
MaxCalls == 4     \* calls made by the caller in one behaviour

\* ------------------------------------------------------- program constants
StatusCreated == 201
StatusNotFound == 404
MsPerSecond == 1000

\* The status codes a response is drawn from.
StatusCodes == {200, 403, 404, 500}
\* The statuses with which the engine or a proxy reports an error.
ErrorStatuses == {s \in StatusCodes : s >= 400}

\* The expiry values a caller passes, in milliseconds.
Durations == {-1000, 0, 500, 1000}
IndexNames == {"", "order"}
DocumentTypes == {"", "all"}
\* Values of client.Timeout, in milliseconds.
Timeouts == {500}

\* c.Host.String()
HostString == <<"http://localhost:9200">>

\* ---------------------------------------------------------------- strings
EmptyString == <<>>

\* The identifier the engine issues in generation g.
IdOf(g) == <<"id", g>>

\* ------------------------------------------------------ response documents
\* The keys of a response that Scroller's json tags name.
AllKeys == {"_scroll_id", "took", "timed_out", "_shards", "hits.total", "hits.hits"}

ZeroShards == [Total |-> 0, Successful |-> 0, Failed |-> 0]

\* What the engine reports next to a page: took, timed_out, _shards.
Diags ==
    << [took |-> 3, timed_out |-> FALSE,
        shards |-> [Total |-> 5, Successful |-> 5, Failed |-> 0]],
       [took |-> 7, timed_out |-> TRUE,
        shards |-> [Total |-> 5, Successful |-> 4, Failed |-> 1]] >>

ZeroDiag == [took |-> 0, timed_out |-> FALSE, shards |-> ZeroShards]

\* A response body: valid = it is well-formed JSON; keys = the keys of
\* AllKeys it holds; bad = those of them whose value has a type the struct
\* field cannot take; the other fields are the values under the keys.
MkBody(tag, valid, keys, bad, sid, diag, total, hits) ==
    [tag |-> tag, valid |-> valid, keys |-> keys, bad |-> bad,
     sid |-> sid, diag |-> diag, total |-> total, hits |-> hits]

\* No bytes at all (a nil []byte).
NoBody == MkBody("none", FALSE, {}, {}, EmptyString, ZeroDiag, 0, <<>>)
\* {"error": "...", "status": n}: well-formed, none of Scroller's keys.
ErrorBody == MkBody("error", TRUE, {}, {}, EmptyString, ZeroDiag, 0, <<>>)
\* Text that is not JSON (an HTML error page of a proxy, a truncated body).
GarbageBody == MkBody("garbage", FALSE, {}, {}, EmptyString, ZeroDiag, 0, <<>>)
\* The text of a net/http error.
NetErrorText == MkBody("neterr", FALSE, {}, {}, EmptyString, ZeroDiag, 0, <<>>)

\* ------------------------------------------------------------------ errors
NilError == [kind |-> "nil", msg |-> NoBody]
ValidationError == [kind |-> "validation", msg |-> NoBody]
TransportError(text) == [kind |-> "transport", msg |-> text]
DecodeError(which) == [kind |-> which, msg |-> NoBody]

IsDecodeError(e) == e.kind \in {"syntax", "type"}

\* ---------------------------------------------------------------- Scroller
\* The zero value of the struct.  Hits.IsNil tells a nil slice from an empty
\* one.
ZeroScroller ==
    [ScrollId |-> EmptyString, Took |-> 0, TimedOut |-> FALSE,
     Shards |-> ZeroShards,
     Hits |-> [Total |-> 0, Hits |-> <<>>, IsNil |-> TRUE],
     baseUrl |-> EmptyString, expire |-> EmptyString, httpTimeout |-> 0]

\* Mutant: the decoded hits are appended to the page the Scroller holds.
UnmarshalAppending(data, scroller) ==
    IF ~data.valid
    THEN [err |-> DecodeError("syntax"), v |-> scroller]
    ELSE LET ok == data.keys \ data.bad
             v == [scroller EXCEPT
                     !.ScrollId = IF "_scroll_id" \in ok THEN data.sid ELSE @,
                     !.Took = IF "took" \in ok THEN data.diag.took ELSE @,
                     !.TimedOut = IF "timed_out" \in ok
                                  THEN data.diag.timed_out ELSE @,
                     !.Shards = IF "_shards" \in ok THEN data.diag.shards ELSE @,
                     !.Hits.Total = IF "hits.total" \in ok THEN data.total ELSE @,
                     !.Hits.Hits = IF "hits.hits" \in ok THEN @ \o data.hits ELSE @,
                     !.Hits.IsNil = IF "hits.hits" \in ok THEN FALSE ELSE @]
         IN  [err |-> IF data.keys \cap data.bad = {}
                      THEN NilError ELSE DecodeError("type"),
              v |-> v]

\* Mutant: an empty "hits" array is taken for a missing one.
UnmarshalSkipEmpty(data, scroller) ==
    IF ~data.valid
    THEN [err |-> DecodeError("syntax"), v |-> scroller]
    ELSE LET ok == data.keys \ data.bad
             some == "hits.hits" \in ok /\ data.hits # <<>>
             v == [scroller EXCEPT
                     !.ScrollId = IF "_scroll_id" \in ok THEN data.sid ELSE @,
                     !.Took = IF "took" \in ok THEN data.diag.took ELSE @,
                     !.TimedOut = IF "timed_out" \in ok
                                  THEN data.diag.timed_out ELSE @,
                     !.Shards = IF "_shards" \in ok THEN data.diag.shards ELSE @,
                     !.Hits.Total = IF "hits.total" \in ok THEN data.total ELSE @,
                     !.Hits.Hits = IF some THEN data.hits ELSE @,
                     !.Hits.IsNil = IF some THEN FALSE ELSE @]
         IN  [err |-> IF data.keys \cap data.bad = {}
                      THEN NilError ELSE DecodeError("type"),
              v |-> v]

\* Mutant: the text is decoded into a new Scroller, which replaces the old.
UnmarshalFresh(data, scroller) ==
    IF ~data.valid
    THEN [err |-> DecodeError("syntax"), v |-> scroller]
    ELSE LET ok == data.keys \ data.bad
             v == [ZeroScroller EXCEPT
                     !.ScrollId = IF "_scroll_id" \in ok THEN data.sid ELSE @,
                     !.Took = IF "took" \in ok THEN data.diag.took ELSE @,
                     !.TimedOut = IF "timed_out" \in ok
                                  THEN data.diag.timed_out ELSE @,
                     !.Shards = IF "_shards" \in ok THEN data.diag.shards ELSE @,
                     !.Hits.Total = IF "hits.total" \in ok THEN data.total ELSE @,
                     !.Hits.Hits = IF "hits.hits" \in ok THEN data.hits ELSE @,
                     !.Hits.IsNil = IF "hits.hits" \in ok THEN FALSE ELSE @]
         IN  [err |-> IF data.keys \cap data.bad = {}
                      THEN NilError ELSE DecodeError("type"),
              v |-> v]

\* Mutant: the identifier of the response is not stored.
UnmarshalKeepsId(data, scroller) ==
    IF ~data.valid
    THEN [err |-> DecodeError("syntax"), v |-> scroller]
    ELSE LET ok == data.keys \ data.bad
             v == [scroller EXCEPT
                     !.Took = IF "took" \in ok THEN data.diag.took ELSE @,
                     !.TimedOut = IF "timed_out" \in ok
                                  THEN data.diag.timed_out ELSE @,
                     !.Shards = IF "_shards" \in ok THEN data.diag.shards ELSE @,
                     !.Hits.Total = IF "hits.total" \in ok THEN data.total ELSE @,
                     !.Hits.Hits = IF "hits.hits" \in ok THEN data.hits ELSE @,
                     !.Hits.IsNil = IF "hits.hits" \in ok THEN FALSE ELSE @]
         IN  [err |-> IF data.keys \cap data.bad = {}
                      THEN NilError ELSE DecodeError("type"),
              v |-> v]

\* json.Unmarshal(data, scroller): text that is not JSON is refused before
\* anything is stored; otherwise each key the text holds is stored into its
\* field, a key it does not hold leaves the field as it was, a value of the
\* wrong type is skipped and reported once the rest is decoded.  The fields
\* without a json tag (baseUrl, expire, httpTimeout) are never touched.
Unmarshal(data, scroller) ==
    IF ~data.valid
    THEN [err |-> DecodeError("syntax"), v |-> scroller]
    ELSE LET ok == data.keys \ data.bad
             v == [scroller EXCEPT
                     !.ScrollId = IF "_scroll_id" \in ok THEN data.sid ELSE @,
                     !.Took = IF "took" \in ok THEN data.diag.took ELSE @,
                     !.TimedOut = IF "timed_out" \in ok
                                  THEN data.diag.timed_out ELSE @,
                     !.Shards = IF "_shards" \in ok THEN data.diag.shards ELSE @,
                     !.Hits.Total = IF "hits.total" \in ok THEN data.total ELSE @,
                     !.Hits.Hits = IF "hits.hits" \in ok THEN data.hits ELSE @,
                     !.Hits.IsNil = IF "hits.hits" \in ok THEN FALSE ELSE @]
         IN  [err |-> IF data.keys \cap data.bad = {}
                      THEN NilError ELSE DecodeError("type"),
              v |-> v]

\* --------------------------------------------------------------- transport
\* What the network does with one request: fail = "do" (client.Do fails:
\* refused, timed out), "read" (reading the body fails) or "none" (the
\* exchange completes with a status and a body).
Exchange(fail, status, body) == [fail |-> fail, status |-> status, body |-> body]

\* The header sendHTTPRequest sets.
ContentType(method) ==
    IF method = "POST" \/ method = "PUT"
    THEN "application/x-www-form-urlencoded" ELSE ""

\* Mutant: the range of refused statuses includes its lower end.
sendHTTPRequestInclusive(method, url, body, timeout, x) ==
    IF x.fail # "none"
    THEN [response |-> NoBody, err |-> TransportError(NetErrorText)]
    ELSE IF x.status >= StatusCreated /\ x.status < StatusNotFound
         THEN [response |-> NoBody, err |-> TransportError(x.body)]
         ELSE [response |-> x.body, err |-> NilError]

sendHTTPRequest(method, url, body, timeout, x) ==
    IF x.fail # "none"
    THEN [response |-> NoBody, err |-> TransportError(NetErrorText)]
    ELSE IF x.status > StatusCreated /\ x.status < StatusNotFound
         THEN [response |-> NoBody, err |-> TransportError(x.body)]
         ELSE [response |-> x.body, err |-> NilError]

\* ------------------------------------------------- SearchByScanAndScroll
\* Mutant: the validation forgets the expiry.
InvalidNamesOnly(indexName, documentType, expireTime) ==
    indexName = "" \/ documentType = ""

\* The parameter validation: TRUE when the call is refused.
Invalid(indexName, documentType, expireTime) ==
    indexName = "" \/ documentType = "" \/ expireTime = 0

\* int(expireTime.Seconds()): the conversion truncates toward zero.
Seconds(expireTime) ==
    IF expireTime >= 0
    THEN expireTime \div MsPerSecond
    ELSE -((-expireTime) \div MsPerSecond)

\* fmt.Sprintf("%ds", int(expireTime.Seconds()))
ExpireString(expireTime) == <<Seconds(expireTime), "s">>

\* The request of SearchByScanAndScroll:
\* POST <host>/<index>/<type>/_search?search_type=scan&scroll=<expire>
OpenRequest(indexName, documentType, expireTime, body, timeout) ==
    [method |-> "POST", contentType |-> ContentType("POST"),
     base |-> HostString, path |-> <<indexName, documentType, "_search">>,
     search_type |-> "scan", scroll |-> ExpireString(expireTime),
     scroll_id |-> EmptyString, body |-> body, timeout |-> timeout]

\* What SearchByScanAndScroll returns when it gets past the validation and
\* the network answers its request with x: ptr = the returned *Scroller is
\* not nil.
OpenResult(req, x) ==
    LET r == sendHTTPRequest(req.method, req, req.body, req.timeout, x)
        fresh == [ZeroScroller EXCEPT !.baseUrl = HostString,
                                      !.expire = req.scroll,
                                      !.httpTimeout = req.timeout]
        u == Unmarshal(r.response, fresh)
    IN  IF r.err # NilError
        THEN [ptr |-> FALSE, scroller |-> ZeroScroller, err |-> r.err]
        ELSE [ptr |-> TRUE, scroller |-> u.v, err |-> u.err]

\* ---------------------------------------------------------------- NextChunk
NoQuery == [size |-> 0]

\* GET <baseUrl>/_search/scroll?scroll=<expire>&scroll_id=<ScrollId>
NextChunkRequest(scroller) ==
    [method |-> "GET", contentType |-> ContentType("GET"),
     base |-> scroller.baseUrl, path |-> <<"_search", "scroll">>,
     search_type |-> "", scroll |-> scroller.expire,
     scroll_id |-> scroller.ScrollId, body |-> NoQuery,
     timeout |-> scroller.httpTimeout]

NextChunkResult(scroller, req, x) ==
    LET r == sendHTTPRequest(req.method, req, req.body, req.timeout, x)
        u == Unmarshal(r.response, scroller)
    IN  IF r.err # NilError
        THEN [scroller |-> scroller, err |-> r.err]
        ELSE [scroller |-> u.v, err |-> u.err]

\* ------------------------------------------------------------------ engine
\* The search engine's side of one scroll: the collection holds the
\* documents 1..ndocs and is not written to; scan = the engine answers the
\* opening search with no hits (search_type=scan) rather than with the first
\* page; open/alive = a scroll context exists / has not expired; size = the
\* page size the query asked for; pos = the documents delivered so far;
\* IdOf(gen) = the identifier the context answers to.
Min(a, b) == IF a <= b THEN a ELSE b

PageAt(e) ==
    [i \in 1..(Min(e.pos + e.size, e.ndocs) - e.pos) |-> e.pos + i]

\* The engine can answer the request with a page.
Accepts(req, e) ==
    /\ Len(req.scroll) = 2
    /\ req.scroll[1] >= 1
    /\ IF req.method = "POST"
       THEN TRUE
       ELSE e.open /\ e.alive /\ req.scroll_id = IdOf(e.gen)

\* The engine after it answered the request, and the page it answered with.
\* rotate = it replaces the identifier (it may after every request).
Serve(req, e, rotate) ==
    IF req.method = "POST"
    THEN LET e1 == [e EXCEPT !.open = TRUE, !.alive = TRUE, !.pos = 0,
                             !.size = req.body.size, !.gen = e.gen + 1]
             hits == IF e.scan THEN <<>> ELSE PageAt(e1)
         IN  [eng |-> [e1 EXCEPT !.pos = Len(hits)], hits |-> hits]
    ELSE LET hits == PageAt(e)
         IN  [eng |-> [e EXCEPT !.pos = e.pos + Len(hits),
                                !.gen = IF rotate THEN e.gen + 1 ELSE e.gen],
              hits |-> hits]

\* The shapes in which a page document arrives: complete; without the
\* identifier; without "hits"; with a "took" that is no number.
Complete == [valid |-> TRUE, keys |-> AllKeys, bad |-> {}]

Shapes ==
    { Complete,
      [valid |-> TRUE, keys |-> AllKeys \ {"_scroll_id"}, bad |-> {}],
      [valid |-> TRUE, keys |-> AllKeys \ {"hits.total", "hits.hits"}, bad |-> {}],
      [valid |-> TRUE, keys |-> AllKeys, bad |-> {"took"}] }

\* The answers that are no page: an error document under any other status,
\* or an error page that is not JSON.
ErrorReplies ==
    {<<s, ErrorBody>> : s \in StatusCodes \ {200}}
    \cup {<<500, GarbageBody>>}

\* The page document of the engine that has just served hits: the figures
\* it reports differ from one position in the collection to the next.
PageBody(shape, e, hits) ==
    MkBody("page", shape.valid, shape.keys, shape.bad,
           IdOf(e.gen), Diags[1 + (e.pos % 2)], e.ndocs, hits)

\* Everything that can happen to one request: how the exchange ends (x), the
\* engine afterwards (eng), whether the engine answered with a page (served).
Outcome(x, e, served) == [x |-> x, eng |-> e, served |-> served]

Exchanges(req, e) ==
    LET after == {Serve(req, e, rotate) : rotate \in BOOLEAN}
    IN  \* the request never arrives
        {Outcome(Exchange("do", 0, NoBody), e, FALSE)}
        \* the answer is lost on the way back
        \cup {Outcome(Exchange("read", 0, NoBody), a.eng, FALSE) :
                 a \in IF Accepts(req, e) THEN after ELSE {}}
        \* the engine, or something before it, answers with another status
        \cup {Outcome(Exchange("none", r[1], r[2]), e, FALSE) : r \in ErrorReplies}
        \* the engine answers with a page
        \cup {Outcome(Exchange("none", 200,
                               PageBody(sh, a.eng, a.hits)), a.eng, TRUE) :
                 sh \in Shapes,
                 a \in IF Accepts(req, e) THEN after ELSE {}}

\* ------------------------------------------------------------------- state
VARIABLES
    timeout,    \* c.Timeout
    scroller,   \* the Scroller the caller's variable points to
    held,       \* the caller's variable is not nil
    ret,        \* what the last call returned: [ptr, err]
    op,         \* the last call: "none", "Open", "NextChunk", "SetHttpTimeout"
    args,       \* the arguments of the last SearchByScanAndScroll
    sent,       \* the requests the last call issued, in order
    nreq,       \* the requests issued so far
    answer,     \* how the network answered the last call's request
    reply,      \* what sendHTTPRequest returned to the last call
    before,     \* the caller's Scroller as the last call found it
    eng,        \* the search engine
    received,   \* the pages read since the last SearchByScanAndScroll
    clean,      \* since then every request was answered with a complete page
    ncalls,     \* calls made so far
    opened,     \* SearchByScanAndScroll has been called
    hist,       \* the request SearchByScanAndScroll sent, and the identifier
                \* of the latest response whose call returned no error
    conc        \* NextChunk calls in flight (concurrent callers only)

vars == <<timeout, scroller, held, ret, op, args, sent, nreq, answer, reply, before,
          eng, received, clean, ncalls, opened, hist, conc>>

NoArgs == [indexName |-> "", documentType |-> "", expireTime |-> 0,
           body |-> NoQuery]

NoAnswer == [x |-> Exchange("none", 0, NoBody), served |-> FALSE,
             alive |-> FALSE, open |-> FALSE, complete |-> FALSE]

\* The answer as recorded: the exchange, and the state of the scroll context
\* when the request was made.
Answer(o, e) ==
    [x |-> o.x, served |-> o.served, alive |-> e.alive, open |-> e.open,
     complete |-> o.served /\ o.x.body.valid /\ o.x.body.keys = AllKeys
                  /\ o.x.body.bad = {}]

NoReply == [response |-> NoBody, err |-> NilError]

\* The Scroller is exhausted: the last call was a NextChunk that returned no
\* error and whose response carried a page of no hits.
Exhausted ==
    /\ op = "NextChunk"
    /\ ret.err = NilError
    /\ answer.x.fail = "none"
    /\ "hits.hits" \in answer.x.body.keys
    /\ answer.x.body.hits = <<>>

\* What a call finds.
Before == [scroller |-> scroller, held |-> held, exhausted |-> Exhausted,
           okId |-> hist.okId]

\* The request of a call that sent none.
NoRequest == NextChunkRequest(ZeroScroller)

NoHist == [openReq |-> NoRequest, okId |-> EmptyString]

\* The body that reaches json.Unmarshal holds an identifier.
CarriesId(rep) ==
    /\ rep.err = NilError
    /\ rep.response.valid
    /\ "_scroll_id" \in rep.response.keys \ rep.response.bad

\* No caller is inside NextChunk.  pc[g] = "wait" while caller g is between
\* its request and the decoding of the answer; req[g], x[g] = the request it
\* sent and the answer on its way; overlapped = a call was started while
\* another was in flight; stale = a request carried an identifier that was
\* not the one the engine had issued last.
NoConc == [pc |-> <<"idle", "idle">>, req |-> <<NoRequest, NoRequest>>,
           x |-> <<NoAnswer, NoAnswer>>,
           overlapped |-> FALSE, stale |-> FALSE]

\* NewClient: no timeout is set; nothing has been called.
Init ==
    /\ timeout = 0
    /\ scroller = ZeroScroller
    /\ held = FALSE
    /\ ret = [ptr |-> FALSE, err |-> NilError]
    /\ op = "none"
    /\ args = NoArgs
    /\ sent = <<>>
    /\ nreq = 0
    /\ answer = NoAnswer
    /\ reply = NoReply
    /\ before = [scroller |-> ZeroScroller, held |-> FALSE, exhausted |-> FALSE,
                 okId |-> EmptyString]
    /\ eng \in [ndocs : 0..MaxDocs, scan : BOOLEAN, open : {FALSE},
                alive : {FALSE}, size : {0}, pos : {0}, gen : {0}]
    /\ received = <<>>
    /\ clean = FALSE
    /\ ncalls = 0
    /\ opened = FALSE
    /\ hist = NoHist
    /\ conc = NoConc

\* c.SetHttpTimeout(duration)
SetHttpTimeout(duration) ==
    /\ ncalls < MaxCalls
    /\ timeout' = duration
    /\ op' = "SetHttpTimeout"
    /\ ncalls' = ncalls + 1
    /\ UNCHANGED <<scroller, held, ret, args, sent, nreq, answer, reply, before,
                   eng, received, clean, opened, hist, conc>>

\* scroller, err := c.SearchByScanAndScroll(indexName, documentType,
\*                                          expireTime, body)
\* refused by the validation: nothing is sent.
OpenInvalid(indexName, documentType, expireTime, body) ==
    /\ ncalls < MaxCalls /\ ~opened
    /\ opened' = TRUE
    /\ Invalid(indexName, documentType, expireTime)
    /\ ret' = [ptr |-> FALSE, err |-> ValidationError]
    /\ scroller' = ZeroScroller
    /\ held' = FALSE
    /\ op' = "Open"
    /\ args' = [indexName |-> indexName, documentType |-> documentType,
                expireTime |-> expireTime, body |-> body]
    /\ sent' = <<>>
    /\ answer' = NoAnswer
    /\ reply' = NoReply
    /\ before' = Before
    /\ received' = <<>>
    /\ clean' = FALSE
    /\ ncalls' = ncalls + 1
    /\ hist' = NoHist
    /\ UNCHANGED <<timeout, nreq, eng, conc>>

\* past the validation: one request, answered in one of the ways o.
OpenSend(indexName, documentType, expireTime, body) ==
    /\ ncalls < MaxCalls /\ ~opened
    /\ opened' = TRUE
    /\ ~Invalid(indexName, documentType, expireTime)
    /\ LET req == OpenRequest(indexName, documentType, expireTime, body, timeout)
       IN  \E o \in Exchanges(req, eng) :
             LET r == OpenResult(req, o.x)
             IN  /\ ret' = [ptr |-> r.ptr, err |-> r.err]
                 /\ reply' = sendHTTPRequest(req.method, req, req.body,
                                             req.timeout, o.x)
                 /\ scroller' = r.scroller
                 /\ held' = r.ptr
                 /\ sent' = <<req>>
                 /\ answer' = Answer(o, eng)
                 /\ eng' = o.eng
                 /\ received' = r.scroller.Hits.Hits
                 /\ clean' = Answer(o, eng).complete
                 /\ hist' = [openReq |-> req,
                             okId |-> IF r.err = NilError /\ CarriesId(reply')
                                      THEN o.x.body.sid ELSE EmptyString]
    /\ op' = "Open"
    /\ args' = [indexName |-> indexName, documentType |-> documentType,
                expireTime |-> expireTime, body |-> body]
    /\ nreq' = nreq + 1
    /\ before' = Before
    /\ ncalls' = ncalls + 1
    /\ UNCHANGED <<timeout, conc>>

\* err := scroller.NextChunk(), on a Scroller the caller holds.
NextChunk ==
    /\ ncalls < MaxCalls
    /\ held
    /\ LET req == NextChunkRequest(scroller)
       IN  \E o \in Exchanges(req, eng) :
             LET r == NextChunkResult(scroller, req, o.x)
             IN  /\ ret' = [ptr |-> TRUE, err |-> r.err]
                 /\ reply' = sendHTTPRequest(req.method, req, req.body,
                                             req.timeout, o.x)
                 /\ scroller' = r.scroller
                 /\ sent' = <<req>>
                 /\ answer' = Answer(o, eng)
                 /\ eng' = o.eng
                 /\ received' = received \o r.scroller.Hits.Hits
                 /\ clean' = (clean /\ Answer(o, eng).complete)
                 /\ hist' = [hist EXCEPT
                               !.okId = IF r.err = NilError /\ CarriesId(reply')
                                        THEN o.x.body.sid ELSE @]
    /\ op' = "NextChunk"
    /\ nreq' = nreq + 1
    /\ before' = Before
    /\ ncalls' = ncalls + 1
    /\ UNCHANGED <<timeout, held, args, opened, conc>>

\* The scroll context outlives its expiry without a renewing request.
Expire ==
    /\ eng.open /\ eng.alive
    /\ eng' = [eng EXCEPT !.alive = FALSE]
    /\ UNCHANGED <<timeout, scroller, held, ret, op, args, sent, nreq, answer,
                   reply, before, received, clean, ncalls, opened, hist, conc>>

Queries == [size : 1..MaxSize]

Next ==
    \/ \E d \in Timeouts : SetHttpTimeout(d)
    \/ \E i \in IndexNames, t \in DocumentTypes, e \in Durations, b \in Queries :
          OpenInvalid(i, t, e, b)
    \/ \E i \in IndexNames, t \in DocumentTypes, e \in Durations, b \in Queries :
          OpenSend(i, t, e, b)
    \/ NextChunk
    \/ Expire

Spec == Init /\ [][Next]_vars

\* ------------------------------------------------- the transport on its own
\* sendHTTPRequest applied once to every way an exchange can end: any of
\* the statuses below, any body, either method.
TransportStatuses == {100, 200, 201, 202, 204, 301, 400, 403, 404, 500, 503}

TransportBodies ==
    {ErrorBody, GarbageBody,
     MkBody("page", TRUE, AllKeys, {}, IdOf(1), Diags[1], 1, <<1>>)}

TransportRequests ==
    {OpenRequest("order", "all", 1000, [size |-> 1], 0),
     NextChunkRequest([ZeroScroller EXCEPT !.baseUrl = HostString,
                                           !.expire = ExpireString(1000),
                                           !.ScrollId = IdOf(1)])}

InitTransport ==
    /\ timeout = 0
    /\ scroller = ZeroScroller
    /\ held = FALSE
    /\ ret = [ptr |-> FALSE, err |-> NilError]
    /\ op = "none"
    /\ args = NoArgs
    /\ \E req \in TransportRequests : sent = <<req>>
    /\ nreq = 0
    /\ \E f \in {"none", "do", "read"}, st \in TransportStatuses,
          b \in TransportBodies :
          answer = [NoAnswer EXCEPT !.x = Exchange(f, st, b)]
    /\ reply = NoReply
    /\ before = [scroller |-> ZeroScroller, held |-> FALSE, exhausted |-> FALSE,
                 okId |-> EmptyString]
    /\ eng = [ndocs |-> 0, scan |-> FALSE, open |-> FALSE, alive |-> FALSE,
              size |-> 0, pos |-> 0, gen |-> 0]
    /\ received = <<>>
    /\ clean = FALSE
    /\ ncalls = 0
    /\ opened = FALSE
    /\ hist = NoHist
    /\ conc = NoConc

Send ==
    /\ op = "none"
    /\ op' = "sendHTTPRequest"
    /\ reply' = sendHTTPRequest(sent[1].method, sent[1], sent[1].body,
                                sent[1].timeout, answer.x)
    /\ nreq' = nreq + 1
    /\ UNCHANGED <<timeout, scroller, held, ret, args, sent, answer, before,
                   eng, received, clean, ncalls, opened, hist, conc>>

NextTransport == Send

SpecTransport == InitTransport /\ [][NextTransport]_vars

\* ------------------------------------------------------ the caller's loop
\* scroller, err := client.SearchByScanAndScroll("order", "all", d, body)
\* for { err = scroller.NextChunk(); ...
\*       if len(scroller.Hits.Hits) == 0 { break } }
\* run against an engine that answers every request with a complete page.

\* The calls the loop is followed for.
LoopCalls == MaxDocs + 2

\* len(scroller.Hits.Hits) == 0 after a NextChunk: the loop breaks.
LoopDone == op = "NextChunk" /\ Len(scroller.Hits.Hits) = 0

\* The exchanges in which the engine's page arrives whole.
Succeeds(req, e) == {o \in Exchanges(req, e) : Answer(o, e).complete}

LoopOpen(expireTime, body) ==
    /\ OpenSend("order", "all", expireTime, body)
    /\ answer'.complete

LoopNextChunk ==
    /\ ncalls < LoopCalls
    /\ held
    /\ ~LoopDone
    /\ LET req == NextChunkRequest(scroller)
       IN  \E o \in Succeeds(req, eng) :
             LET r == NextChunkResult(scroller, req, o.x)
             IN  /\ ret' = [ptr |-> TRUE, err |-> r.err]
                 /\ reply' = sendHTTPRequest(req.method, req, req.body,
                                             req.timeout, o.x)
                 /\ scroller' = r.scroller
                 /\ sent' = <<req>>
                 /\ answer' = Answer(o, eng)
                 /\ eng' = o.eng
                 /\ received' = received \o r.scroller.Hits.Hits
                 /\ clean' = (clean /\ Answer(o, eng).complete)
                 /\ hist' = [hist EXCEPT
                               !.okId = IF r.err = NilError /\ CarriesId(reply')
                                        THEN o.x.body.sid ELSE @]
    /\ op' = "NextChunk"
    /\ nreq' = nreq + 1
    /\ before' = Before
    /\ ncalls' = ncalls + 1
    /\ UNCHANGED <<timeout, held, args, opened, conc>>

NextLoop ==
    \/ \E e \in Durations, b \in Queries : LoopOpen(e, b)
    \/ LoopNextChunk

\* The loop is one sequential program that keeps running: its next step is
\* taken whenever there is one.
SpecLoop == Init /\ [][NextLoop]_vars /\ WF_vars(NextLoop)

\* --------------------------------------------- two callers, one Scroller
\* go scroller.NextChunk(); go scroller.NextChunk(): each call reads the
\* Scroller to build its request (Start), then decodes the answer into the
\* Scroller (Finish); nothing orders the steps of one call against the
\* other's.  The network is reliable here: a request the engine accepts is
\* answered with a complete page, one it does not accept with 404 and an
\* error document.
Callers == {1, 2}

Other(g) == 3 - g

Idle == \A g \in Callers : conc.pc[g] = "idle"

Reliable(req, e) ==
    {o \in Exchanges(req, e) :
        \/ Answer(o, e).complete
        \/ /\ ~Accepts(req, e)
           /\ o.x = Exchange("none", StatusNotFound, ErrorBody)}

ConcOpen(expireTime, body) ==
    /\ OpenSend("order", "all", expireTime, body)
    /\ answer'.complete

\* url := fmt.Sprintf(..., scroller.ScrollId); sendHTTPRequest(...)
Start(g) ==
    /\ ncalls < MaxCalls
    /\ held
    /\ conc.pc[g] = "idle"
    /\ LET req == NextChunkRequest(scroller)
       IN  \E o \in Reliable(req, eng) :
             /\ sent' = <<req>>
             /\ answer' = Answer(o, eng)
             /\ eng' = o.eng
             /\ clean' = (clean /\ Answer(o, eng).complete)
             /\ conc' = [conc EXCEPT
                           !.pc[g] = "wait",
                           !.req[g] = req,
                           !.x[g] = Answer(o, eng),
                           !.overlapped = @ \/ conc.pc[Other(g)] = "wait",
                           !.stale = @ \/ req.scroll_id # IdOf(eng.gen)]
    /\ nreq' = nreq + 1
    /\ before' = Before
    /\ ncalls' = ncalls + 1
    /\ UNCHANGED <<timeout, scroller, held, ret, op, args, reply, received,
                   opened, hist>>

\* err = json.Unmarshal(response, scroller); return err
Finish(g) ==
    /\ conc.pc[g] = "wait"
    /\ LET req == conc.req[g]
           x == conc.x[g].x
           r == NextChunkResult(scroller, req, x)
       IN  /\ ret' = [ptr |-> TRUE, err |-> r.err]
           /\ reply' = sendHTTPRequest(req.method, req, req.body, req.timeout, x)
           /\ scroller' = r.scroller
           /\ received' = received \o r.scroller.Hits.Hits
           /\ hist' = [hist EXCEPT
                         !.okId = IF r.err = NilError /\ CarriesId(reply')
                                  THEN x.body.sid ELSE @]
    /\ op' = "NextChunk"
    /\ conc' = [conc EXCEPT !.pc[g] = "idle"]
    /\ UNCHANGED <<timeout, held, args, sent, nreq, answer, before, eng, clean,
                   ncalls, opened>>

\* What two unsynchronised decodes into one struct can leave: each field
\* group from either of them.
Mix(a, b) ==
    {[c EXCEPT !.ScrollId = s, !.Hits = h] :
        c \in {a, b}, s \in {a.ScrollId, b.ScrollId}, h \in {a.Hits, b.Hits}}

\* Both callers decode at once (a data race on the Scroller's fields); g is
\* the one that returns last.
FinishBoth(g) ==
    /\ \A k \in Callers : conc.pc[k] = "wait"
    /\ LET r == NextChunkResult(scroller, conc.req[g], conc.x[g].x)
           q == NextChunkResult(scroller, conc.req[Other(g)], conc.x[Other(g)].x)
       IN  /\ ret' = [ptr |-> TRUE, err |-> r.err]
           /\ reply' = sendHTTPRequest(conc.req[g].method, conc.req[g],
                                       conc.req[g].body, conc.req[g].timeout,
                                       conc.x[g].x)
           /\ \E m \in Mix(r.scroller, q.scroller) :
                 /\ scroller' = m
                 /\ received' = received \o m.Hits.Hits
           /\ hist' = [hist EXCEPT
                         !.okId = IF r.err = NilError /\ CarriesId(reply')
                                  THEN conc.x[g].x.body.sid ELSE @]
    /\ op' = "NextChunk"
    /\ conc' = [conc EXCEPT !.pc = <<"idle", "idle">>]
    /\ UNCHANGED <<timeout, held, args, sent, nreq, answer, before, eng, clean,
                   ncalls, opened>>

NextConc ==
    \/ \E e \in Durations, b \in Queries : ConcOpen(e, b)
    \/ \E g \in Callers : Start(g)
    \/ \E g \in Callers : Finish(g)
    \/ \E g \in Callers : FinishBoth(g)

SpecConc == Init /\ [][NextConc]_vars

\* ================================================================= claims

\* C1: SearchByScanAndScroll called with an empty index name, an empty
\* document type or an expiry that is zero or negative returns a validation
\* error and no Scroller, and issues no request.
C1_InvalidIsRefused ==
    (op = "Open" /\ (args.indexName = "" \/ args.documentType = ""
                     \/ args.expireTime <= 0))
    => (ret.err = ValidationError /\ ~ret.ptr /\ sent = <<>> /\ nreq = 0)

\* C2: SearchByScanAndScroll called with an expiry of exactly 0, whatever
\* the index name, document type and body, returns a validation error and
\* issues no request.
C2_ZeroExpiryIsRefused ==
    (op = "Open" /\ args.expireTime = 0)
    => (ret.err = ValidationError /\ ~ret.ptr /\ sent = <<>> /\ nreq = 0)

C2_Witness ==
    /\ op = "Open"
    /\ args.expireTime = 0
    /\ args.indexName = "order"
    /\ args.documentType = "all"
    /\ ret.err = ValidationError

\* C3: SearchByScanAndScroll never returns both a Scroller and an error.
C3_CursorOrError ==
    op = "Open" => ~(ret.ptr /\ ret.err # NilError)

\* C4: whenever SearchByScanAndScroll returns no error, the ScrollId of the
\* Scroller it returns is not empty.
C4_IdentifierNotEmpty ==
    (op = "Open" /\ ret.err = NilError) => scroller.ScrollId # EmptyString

\* C5: when the answer to NextChunk's request has status 500, NextChunk
\* returns a transport error and the Scroller is as it was before the call.
C5_Status500IsTransportError ==
    (op = "NextChunk" /\ answer.x.fail = "none" /\ answer.x.status = 500)
    => (ret.err.kind = "transport" /\ scroller = before.scroller)

\* C6: when the exchange completes with status s, sendHTTPRequest returns an
\* error exactly when 201 < s < 404, and the error's message is the response
\* body; for any other status it returns the response body and no error.
C6_RefusedStatusRange ==
    (op = "sendHTTPRequest" /\ answer.x.fail = "none")
    => IF answer.x.status > 201 /\ answer.x.status < 404
       THEN /\ reply.err.kind = "transport"
            /\ reply.err.msg = answer.x.body
            /\ reply.response = NoBody
       ELSE /\ reply.err = NilError
            /\ reply.response = answer.x.body

C6_Witness ==
    /\ op = "sendHTTPRequest"
    /\ answer.x.fail = "none"
    /\ answer.x.status = 202
    /\ answer.x.body = ErrorBody
    /\ reply.err = TransportError(ErrorBody)

\* C7: as long as every request is answered with a complete page and the
\* collection is not written to, no document is read twice, and once a
\* NextChunk leaves an empty page the pages read since the opening call hold
\* every document of the collection exactly once, as many as hits.total says.
NoDuplicate(seq) ==
    \A i, j \in 1..Len(seq) : i # j => seq[i] # seq[j]

C7_EveryRecordOnce ==
    /\ clean => NoDuplicate(received)
    /\ (clean /\ op = "NextChunk" /\ scroller.Hits.Hits = <<>>)
       => (/\ {received[i] : i \in 1..Len(received)} = 1..eng.ndocs
           /\ Len(received) = eng.ndocs
           /\ scroller.Hits.Total = eng.ndocs)

\* Three documents in pages of two: a full page, a short page, an empty page.
C7_Witness ==
    /\ clean
    /\ op = "NextChunk"
    /\ scroller.Hits.Hits = <<>>
    /\ eng.size = 2
    /\ received = <<1, 2, 3>>
    /\ ncalls = 3

\* C8: NextChunk on an exhausted Scroller leaves an empty page or returns a
\* transport error; it never returns with a page of documents.
C8_ExhaustedStaysEmpty ==
    (op = "NextChunk" /\ before.exhausted)
    => (scroller.Hits.Hits = <<>> \/ ret.err.kind = "transport")

\* The collection has been read to its end, and NextChunk is called again
\* and answered with one more empty page.
C8_Witness ==
    /\ op = "NextChunk"
    /\ before.exhausted
    /\ Len(received) > 0
    /\ ret.err = NilError
    /\ answer.served
    /\ scroller.Hits.Hits = <<>>

\* C9: NextChunk on a Scroller whose scroll context has expired, which the
\* engine answers with an error status and an error document, returns an
\* error.
C9_ExpiredIsAnError ==
    (/\ op = "NextChunk"
     /\ answer.open /\ ~answer.alive
     /\ answer.x.fail = "none"
     /\ answer.x.status \in ErrorStatuses
     /\ answer.x.body = ErrorBody)
    => ret.err # NilError

\* C10: after a NextChunk that returns no error, the ScrollId, the page of
\* hits, the shard counts and the timing fields of the Scroller are the
\* values of the response, a field the response does not hold being empty.
Carried(body, scr) ==
    Unmarshal(body, [ZeroScroller EXCEPT !.baseUrl = scr.baseUrl,
                                         !.expire = scr.expire,
                                         !.httpTimeout = scr.httpTimeout]).v

C10_FieldsAreTheResponse ==
    (op = "NextChunk" /\ ret.err = NilError)
    => LET c == Carried(answer.x.body, before.scroller)
       IN  /\ scroller.ScrollId = c.ScrollId
           /\ scroller.Hits.Hits = c.Hits.Hits
           /\ scroller.Shards = c.Shards
           /\ scroller.Took = c.Took
           /\ scroller.TimedOut = c.TimedOut

\* C11: after a NextChunk that returns no error and whose response holds an
\* empty array of hits, the page of the Scroller is an empty sequence, not a
\* nil one and not the page held before; and after a NextChunk that returns
\* no error the page is empty exactly when the hits of its response are.
C11_EmptyPageOnZeroHits ==
    (/\ op = "NextChunk"
     /\ ret.err = NilError
     /\ answer.x.fail = "none"
     /\ "hits.hits" \in answer.x.body.keys)
    => /\ (answer.x.body.hits = <<>>)
          => (Len(scroller.Hits.Hits) = 0 /\ ~scroller.Hits.IsNil)
       /\ (scroller.Hits.Hits = <<>>) <=> (answer.x.body.hits = <<>>)

\* The Scroller held a page of documents and the response holds none.
C11_Witness ==
    /\ Exhausted
    /\ before.scroller.Hits.Hits # <<>>
    /\ scroller.Hits.Hits = <<>>
    /\ ~scroller.Hits.IsNil

\* C12: the scroll_id of every NextChunk request is the identifier held by
\* the latest response, to SearchByScanAndScroll or to NextChunk, whose call
\* returned no error.
C12_SendsLatestIdentifier ==
    (op = "NextChunk" /\ before.okId # EmptyString)
    => sent[1].scroll_id = before.okId

\* C13: the baseUrl, expire and httpTimeout of a Scroller are those of the
\* request SearchByScanAndScroll sent, whatever has been called since, and
\* every NextChunk request carries that expiry, base address and timeout.
C13_ConfigurationIsKept ==
    /\ held => /\ scroller.baseUrl = hist.openReq.base
               /\ scroller.expire = hist.openReq.scroll
               /\ scroller.httpTimeout = hist.openReq.timeout
    /\ op = "NextChunk" => /\ sent[1].base = hist.openReq.base
                           /\ sent[1].scroll = hist.openReq.scroll
                           /\ sent[1].timeout = hist.openReq.timeout

\* The client's timeout was set after the Scroller was opened, and a
\* NextChunk then replaced every decoded field of the Scroller.
C13_Witness ==
    /\ op = "NextChunk"
    /\ ret.err = NilError
    /\ answer.complete
    /\ timeout # scroller.httpTimeout
    /\ scroller.ScrollId # before.scroller.ScrollId

\* C16: whenever NextChunk returns an error, the ScrollId and the page of
\* hits of the Scroller are those it held before the call.
C16_ErrorLeavesCursor ==
    (op = "NextChunk" /\ ret.err # NilError)
    => /\ scroller.ScrollId = before.scroller.ScrollId
       /\ scroller.Hits = before.scroller.Hits

\* C17: every SearchByScanAndScroll that sends a request sends an expiry of
\* at least one second, and the Scroller it returns holds the same string.
C17_ExpiryAtLeastOneSecond ==
    (op = "Open" /\ sent # <<>>)
    => /\ sent[1].scroll[1] >= 1
       /\ ret.ptr => scroller.expire = sent[1].scroll

\* C14: against a collection that is not written to, with every call
\* succeeding, the loop "SearchByScanAndScroll once, then NextChunk until the
\* page is empty" sooner or later receives an empty page and stops for good.
C14_LoopStops == <>[]LoopDone

\* The longest run: the opening scan returns no hits, then one document a
\* page, then the empty page.
C14_Witness ==
    /\ LoopDone
    /\ clean
    /\ eng.scan
    /\ eng.size = 1
    /\ eng.ndocs = MaxDocs
    /\ Len(received) = eng.ndocs

\* C15: as long as no NextChunk is started while another is in flight, no
\* request carries an identifier other than the one the engine issued last,
\* and between calls the Scroller holds that identifier.  (Overlapping calls
\* can lose an update: C15_Witness.)
C15_SequentialKeepsLatest ==
    (~conc.overlapped /\ held)
    => /\ ~conc.stale
       /\ Idle => scroller.ScrollId = IdOf(eng.gen)

\* Two overlapping calls sent the same identifier, both were answered with a
\* complete page, and the identifier left in the Scroller once both have
\* returned is not the one the engine issued last.
C15_Witness ==
    /\ conc.overlapped
    /\ Idle
    /\ conc.req[1].scroll_id = conc.req[2].scroll_id
    /\ conc.x[1].complete /\ conc.x[2].complete
    /\ ret.err = NilError
    /\ scroller.ScrollId # IdOf(eng.gen)

====
